---- MODULE Spec2Model ----
(***************************************************************************)
(* Model of PATE/train_teachers.py: the dataset partitioner                *)
(* (partition_dataset), the input pipeline (create_data_set) and the       *)
(* epoch loop of main.                                                     *)
(*                                                                         *)
(* Abstractions.  An example is represented by its position in the loaded  *)
(* training set, so that a slice can be compared element by element.  The  *)
(* model weights are represented by the number of optimizer updates that   *)
(* produced them.  A metric accumulator is the sequence of the batches     *)
(* that were fed to it since its last reset, each tagged <<epoch, index>>. *)
(* The order in which shuffle() delivers the examples is not modelled:     *)
(* only the number of batches of a pass is.  Assertions are active (the    *)
(* interpreter is not run with -O).                                        *)
(***************************************************************************)
EXTENDS Integers, Sequences, FiniteSets, TLC

(* ---------------------------------------------------------------------- *)
(* Bounds of the model                                                     *)
(* ---------------------------------------------------------------------- *)
MaxN == 5
MaxTeachers == 3
MaxNeg == 2
MaxNegTeachers == 1
MaxNegSteps == 1
MaxSmallSteps == 3
LargeSteps == 101
MaxBatchSize == 2
MaxTest == 2

(* ---------------------------------------------------------------------- *)
(* Program constants                                                       *)
(* ---------------------------------------------------------------------- *)
NbLabels == 10
EpochCap == 100

(* ---------------------------------------------------------------------- *)
(* Python arithmetic                                                       *)
(* ---------------------------------------------------------------------- *)
Min(a, b) == IF a <= b THEN a ELSE b
Max(a, b) == IF a >= b THEN a ELSE b
Abs(a) == IF a < 0 THEN 0 - a ELSE a

\* floor of the quotient of two non-negative integers, b > 0
NatDiv(a, b) == CHOOSE q \in 0..a : q * b <= a /\ a < (q + 1) * b

\* int(a / b): true division, then truncation towards zero (b # 0)
TruncDiv(a, b) ==
  IF (a >= 0) = (b > 0) THEN NatDiv(Abs(a), Abs(b))
  ELSE 0 - NatDiv(Abs(a), Abs(b))

\* math.floor(a / b) (b # 0)
FloorDiv(a, b) ==
  LET q == NatDiv(Abs(a), Abs(b))
  IN IF (a >= 0) = (b > 0) \/ a = 0 THEN q
     ELSE IF q * Abs(b) = Abs(a) THEN 0 - q ELSE 0 - q - 1

\* math.ceil(a / b) (b # 0)
CeilDiv(a, b) == 0 - FloorDiv(0 - a, b)

(* ---------------------------------------------------------------------- *)
(* partition_dataset                                                       *)
(* ---------------------------------------------------------------------- *)
\* seq[start:end] with Python's treatment of negative and out-of-range bounds
SliceOffByOne(seq, start, end) ==
  LET n == Len(seq)
      norm(i) == IF i < 0 THEN Max(i + n, 0) ELSE Min(i, n)
      s == norm(start)
      e == Min(norm(end) + 1, n)
  IN [k \in 1..Max(e - s, 0) |-> seq[s + k]]

Slice(seq, start, end) ==
  LET n == Len(seq)
      norm(i) == IF i < 0 THEN Max(i + n, 0) ELSE Min(i, n)
      s == norm(start)
      e == norm(end)
  IN [k \in 1..Max(e - s, 0) |-> seq[s + k]]

\* the two sanity checks
SanityCheckUpperOnly(data, labels, nb_teachers, teacher_id) ==
  teacher_id < nb_teachers

SanityCheck(data, labels, nb_teachers, teacher_id) ==
  /\ Len(data) = Len(labels)
  /\ teacher_id < nb_teachers

BatchLen(data, nb_teachers) == TruncDiv(Len(data), nb_teachers)

PartitionStart(teacher_id, batch_len) == teacher_id * batch_len

PartitionEndOverlap(teacher_id, batch_len) == (teacher_id + 1) * batch_len + 1

PartitionEnd(teacher_id, batch_len) == (teacher_id + 1) * batch_len

NoPartition == [returned |-> FALSE, data |-> << >>, labels |-> << >>, batch_len |-> 0]

\* the outcome of a call: the exception raised, or "ok" and the returned triple
partition_dataset(data, labels, nb_teachers, teacher_id) ==
  IF ~SanityCheck(data, labels, nb_teachers, teacher_id)
  THEN [raised |-> "AssertionError", result |-> NoPartition]
  ELSE IF nb_teachers = 0
  THEN [raised |-> "ZeroDivisionError", result |-> NoPartition]
  ELSE LET batch_len == BatchLen(data, nb_teachers)
           start == PartitionStart(teacher_id, batch_len)
           end == PartitionEnd(teacher_id, batch_len)
       IN [raised |-> "ok",
           result |-> [returned |-> TRUE,
                       data |-> Slice(data, start, end),
                       labels |-> Slice(labels, start, end),
                       batch_len |-> batch_len]]

(* ---------------------------------------------------------------------- *)
(* State                                                                   *)
(* ---------------------------------------------------------------------- *)
VARIABLES
  FLAGS,       \* the command-line flags
  mnist,       \* the loaded dataset: X_train, y_train, X_test, y_test
  pc,          \* the position of main
  error,       \* the exception that ended the process, "" if none
  partition,   \* what partition_dataset returned to create_data_set
  train_ds,    \* the training pipeline
  test_ds,     \* the test pipeline
  batch_len,   \* the third value returned by create_data_set
  ckpt_path,   \* the checkpoint path
  num_epochs,  \* the epoch budget
  epoch,       \* the loop variable of the training loop
  train_i,     \* the batches of train_ds consumed in the running pass
  test_i,      \* the batches of test_ds consumed in the running pass
  weights,     \* the model's trainable variables
  metrics,     \* train_loss, train_accuracy, test_loss, test_accuracy
  files,       \* the files written: a set of <<path, content>>
  printed,     \* the lines printed by the epoch template
  saves,       \* history: the number of calls of save_weights
  tests_done   \* history: the number of calls of test_step

vars == <<FLAGS, mnist, pc, error, partition, train_ds, test_ds, batch_len,
          ckpt_path, num_epochs, epoch, train_i, test_i, weights, metrics,
          files, printed, saves, tests_done>>

\* the examples of the training set are numbered from 0; the label of an
\* example is a class in 0..nb_labels-1
Examples(n) == [i \in 1..n |-> i - 1]
Labels(n) == [i \in 1..n |-> (i - 1) % NbLabels]

NoDataset == [built |-> FALSE, n |-> 0, batch_size |-> 0]

EmptyMetrics ==
  [train_loss |-> << >>, train_accuracy |-> << >>,
   test_loss |-> << >>, test_accuracy |-> << >>]

MaxStepsChoices == ((0 - MaxNegSteps)..MaxSmallSteps) \cup {LargeSteps}

Init ==
  /\ FLAGS \in [dataset : {"mnist"}, train_dir : {"/tmp/train_dir"},
                max_steps : MaxStepsChoices,
                nb_teachers : (0 - MaxNegTeachers)..MaxTeachers,
                teacher_id : (0 - MaxNeg)..MaxTeachers,
                batch_size : 0..MaxBatchSize]
  /\ \E n \in 0..MaxN, m \in 0..MaxN, t \in 1..MaxTest :
       /\ m \in {n - 1, n, n + 1}
       /\ mnist = [X_train |-> Examples(n), y_train |-> Labels(m),
                   X_test |-> Examples(t), y_test |-> Labels(t)]
  /\ pc = "create_data_set"
  /\ error = ""
  /\ partition = NoPartition
  /\ train_ds = NoDataset
  /\ test_ds = NoDataset
  /\ batch_len = 0
  /\ ckpt_path = ""
  /\ num_epochs = 0
  /\ epoch = 0
  /\ train_i = 0
  /\ test_i = 0
  /\ weights = 0
  /\ metrics = EmptyMetrics
  /\ files = {}
  /\ printed = << >>
  /\ saves = 0
  /\ tests_done = 0

\* the phase of the training loop main is in
Phase == IF pc \in {"create_data_set", "setup"} THEN "Initializing" ELSE pc

(* ---------------------------------------------------------------------- *)
(* create_data_set                                                         *)
(* ---------------------------------------------------------------------- *)
\* the number of batches one pass over a pipeline yields: batch() keeps the
\* final, shorter batch
NumBatches(ds) == CeilDiv(ds.n, ds.batch_size)

Call == partition_dataset(mnist.X_train, mnist.y_train,
                          FLAGS.nb_teachers, FLAGS.teacher_id)

Fail(exc) ==
  /\ pc' = "Failed"
  /\ error' = exc

\* partition_dataset raises: the exception ends the process
CreateDataSetRaises ==
  /\ pc = "create_data_set"
  /\ Call.raised # "ok"
  /\ Fail(Call.raised)
  /\ UNCHANGED <<FLAGS, mnist, partition, train_ds, test_ds, batch_len,
                 ckpt_path, num_epochs, epoch, train_i, test_i, weights,
                 metrics, files, printed, saves, tests_done>>

\* the framework rejects the pipeline: batch() of a size below 1 always,
\* shuffle() of a buffer of size 0 in the releases that check it
CreateDataSetRejected ==
  /\ pc = "create_data_set"
  /\ Call.raised = "ok"
  /\ \/ FLAGS.batch_size < 1
     \/ Len(Call.result.data) = 0
  /\ partition' = Call.result
  /\ Fail("InvalidArgumentError")
  /\ UNCHANGED <<FLAGS, mnist, train_ds, test_ds, batch_len,
                 ckpt_path, num_epochs, epoch, train_i, test_i, weights,
                 metrics, files, printed, saves, tests_done>>

CreateDataSet ==
  /\ pc = "create_data_set"
  /\ Call.raised = "ok"
  /\ FLAGS.batch_size >= 1
  /\ partition' = Call.result
  /\ train_ds' = [built |-> TRUE, n |-> Len(Call.result.data),
                  batch_size |-> FLAGS.batch_size]
  /\ test_ds' = [built |-> TRUE, n |-> Len(mnist.X_test),
                 batch_size |-> FLAGS.batch_size]
  /\ batch_len' = Call.result.batch_len
  /\ pc' = "setup"
  /\ UNCHANGED <<FLAGS, mnist, error, ckpt_path, num_epochs, epoch, train_i,
                 test_i, weights, metrics, files, printed, saves, tests_done>>

(* ---------------------------------------------------------------------- *)
(* main                                                                    *)
(* ---------------------------------------------------------------------- *)
\* train_dir/dataset_<nb_teachers>_teachers_<teacher_id>.ckpt
CkptPath(flags) ==
  flags.train_dir \o "/" \o flags.dataset \o "_"
    \o ToString(flags.nb_teachers) \o "_teachers_"
    \o ToString(flags.teacher_id) \o ".ckpt"

NumEpochsFloorBatches(max_steps, blen, batch_size) ==
  Min(EpochCap, FloorDiv(max_steps, Max(1, FloorDiv(blen, batch_size))))

NumEpochs(max_steps, blen, batch_size) ==
  Min(EpochCap, FloorDiv(max_steps, CeilDiv(blen, batch_size)))

EpochRangeShort(n) == 1..(n - 1)

\* range(1, num_epochs + 1)
EpochRange(n) == 1..n

\* the loop head: the next value of the loop variable, or the end of main
ForEpoch(e, n) ==
  IF e \in EpochRange(n)
  THEN pc' = "EpochStart" /\ epoch' = e
  ELSE pc' = "Terminated" /\ epoch' = epoch

SetupRaises ==
  /\ pc = "setup"
  /\ CeilDiv(batch_len, FLAGS.batch_size) = 0
  /\ ckpt_path' = CkptPath(FLAGS)
  /\ Fail("ZeroDivisionError")
  /\ UNCHANGED <<FLAGS, mnist, partition, train_ds, test_ds, batch_len,
                 num_epochs, epoch, train_i, test_i, weights, metrics, files,
                 printed, saves, tests_done>>

Setup ==
  /\ pc = "setup"
  /\ CeilDiv(batch_len, FLAGS.batch_size) # 0
  /\ ckpt_path' = CkptPath(FLAGS)
  /\ num_epochs' = NumEpochs(FLAGS.max_steps, batch_len, FLAGS.batch_size)
  /\ ForEpoch(1, num_epochs')
  /\ UNCHANGED <<FLAGS, mnist, error, partition, train_ds, test_ds, batch_len,
                 train_i, test_i, weights, metrics, files, printed, saves,
                 tests_done>>

\* the head of the loop body: the four accumulators are reset
EpochStartKeepsTest ==
  /\ pc = "EpochStart"
  /\ metrics' = [metrics EXCEPT !.train_loss = << >>,
                                !.train_accuracy = << >>]
  /\ train_i' = 0
  /\ pc' = "TrainBatchLoop"
  /\ UNCHANGED <<FLAGS, mnist, error, partition, train_ds, test_ds, batch_len,
                 ckpt_path, num_epochs, epoch, test_i, weights, files,
                 printed, saves, tests_done>>

EpochStart ==
  /\ pc = "EpochStart"
  /\ metrics' = EmptyMetrics
  /\ train_i' = 0
  /\ pc' = "TrainBatchLoop"
  /\ UNCHANGED <<FLAGS, mnist, error, partition, train_ds, test_ds, batch_len,
                 ckpt_path, num_epochs, epoch, test_i, weights, files,
                 printed, saves, tests_done>>

\* train_step on the next batch of train_ds: one optimizer update, one
\* update of each train accumulator
TrainStep ==
  /\ pc = "TrainBatchLoop"
  /\ train_i < NumBatches(train_ds)
  /\ train_i' = train_i + 1
  /\ weights' = weights + 1
  /\ metrics' = [metrics EXCEPT
                   !.train_loss = Append(@, <<epoch, train_i + 1>>),
                   !.train_accuracy = Append(@, <<epoch, train_i + 1>>)]
  /\ UNCHANGED <<FLAGS, mnist, pc, error, partition, train_ds, test_ds,
                 batch_len, ckpt_path, num_epochs, epoch, test_i, files,
                 printed, saves, tests_done>>

\* train_ds is exhausted: the time of the pass is logged
TrainLoopExit ==
  /\ pc = "TrainBatchLoop"
  /\ train_i = NumBatches(train_ds)
  /\ pc' = "Checkpoint"
  /\ UNCHANGED <<FLAGS, mnist, error, partition, train_ds, test_ds, batch_len,
                 ckpt_path, num_epochs, epoch, train_i, test_i, weights,
                 metrics, files, printed, saves, tests_done>>

\* writing a file replaces what the path held
WriteFile(fs, path, content) ==
  {f \in fs : f[1] # path} \cup {<<path, content>>}

SaveWeightsFirstEpochOnly ==
  /\ pc = "Checkpoint"
  /\ files' = IF epoch = 1 THEN WriteFile(files, ckpt_path, weights) ELSE files
  /\ saves' = saves + 1
  /\ test_i' = 0
  /\ pc' = "TestBatchLoop"
  /\ UNCHANGED <<FLAGS, mnist, error, partition, train_ds, test_ds, batch_len,
                 ckpt_path, num_epochs, epoch, train_i, weights, metrics,
                 printed, tests_done>>

\* model.save_weights(ckpt_path)
SaveWeights ==
  /\ pc = "Checkpoint"
  /\ files' = WriteFile(files, ckpt_path, weights)
  /\ saves' = saves + 1
  /\ test_i' = 0
  /\ pc' = "TestBatchLoop"
  /\ UNCHANGED <<FLAGS, mnist, error, partition, train_ds, test_ds, batch_len,
                 ckpt_path, num_epochs, epoch, train_i, weights, metrics,
                 printed, tests_done>>

TestStepUpdatesModel ==
  /\ pc = "TestBatchLoop"
  /\ test_i < NumBatches(test_ds)
  /\ test_i' = test_i + 1
  /\ tests_done' = tests_done + 1
  /\ weights' = weights + 1
  /\ metrics' = [metrics EXCEPT
                   !.test_loss = Append(@, <<epoch, test_i + 1>>),
                   !.test_accuracy = Append(@, <<epoch, test_i + 1>>)]
  /\ UNCHANGED <<FLAGS, mnist, pc, error, partition, train_ds, test_ds,
                 batch_len, ckpt_path, num_epochs, epoch, train_i,
                 files, printed, saves>>

\* test_step on the next batch of test_ds: one update of each test accumulator
TestStep ==
  /\ pc = "TestBatchLoop"
  /\ test_i < NumBatches(test_ds)
  /\ test_i' = test_i + 1
  /\ tests_done' = tests_done + 1
  /\ metrics' = [metrics EXCEPT
                   !.test_loss = Append(@, <<epoch, test_i + 1>>),
                   !.test_accuracy = Append(@, <<epoch, test_i + 1>>)]
  /\ UNCHANGED <<FLAGS, mnist, pc, error, partition, train_ds, test_ds,
                 batch_len, ckpt_path, num_epochs, epoch, train_i, weights,
                 files, printed, saves>>

TestLoopExit ==
  /\ pc = "TestBatchLoop"
  /\ test_i = NumBatches(test_ds)
  /\ pc' = "EpochEnd"
  /\ UNCHANGED <<FLAGS, mnist, error, partition, train_ds, test_ds, batch_len,
                 ckpt_path, num_epochs, epoch, train_i, test_i, weights,
                 metrics, files, printed, saves, tests_done>>

EpochEndEarlyStop ==
  /\ pc = "EpochEnd"
  /\ printed' = Append(printed, [epoch |-> epoch, metrics |-> metrics])
  /\ ForEpoch(epoch + 1, Min(num_epochs, 2))
  /\ UNCHANGED <<FLAGS, mnist, error, partition, train_ds, test_ds, batch_len,
                 ckpt_path, num_epochs, train_i, test_i, weights, metrics,
                 files, saves, tests_done>>

\* the epoch's line is printed from the results of the four accumulators;
\* then the loop head
EpochEnd ==
  /\ pc = "EpochEnd"
  /\ printed' = Append(printed, [epoch |-> epoch, metrics |-> metrics])
  /\ ForEpoch(epoch + 1, num_epochs)
  /\ UNCHANGED <<FLAGS, mnist, error, partition, train_ds, test_ds, batch_len,
                 ckpt_path, num_epochs, train_i, test_i, weights, metrics,
                 files, saves, tests_done>>

Next ==
  \/ CreateDataSetRaises
  \/ CreateDataSetRejected
  \/ CreateDataSet
  \/ SetupRaises
  \/ Setup
  \/ EpochStart
  \/ TrainStep
  \/ TrainLoopExit
  \/ SaveWeights
  \/ TestStep
  \/ TestLoopExit
  \/ EpochEnd

Spec == Init /\ [][Next]_vars

\* main is one thread of control that runs to its end
FairSpec == Spec /\ WF_vars(Next)

(* ---------------------------------------------------------------------- *)
(* Shorthands of the properties                                            *)
(* ---------------------------------------------------------------------- *)
N == Len(mnist.X_train)
nb == FLAGS.nb_teachers
tid == FLAGS.teacher_id
Called == pc # "create_data_set"
Running == pc \notin {"create_data_set", "setup", "Failed"}
InEpoch == pc \in {"EpochStart", "TrainBatchLoop", "Checkpoint",
                   "TestBatchLoop", "EpochEnd"}
ValidCall == nb >= 1 /\ 0 <= tid /\ tid < nb /\ Len(mnist.y_train) = N

\* the batches of one pass over the training and over the test stream
NB == NumBatches(train_ds)
NT == NumBatches(test_ds)

\* the indices of the training set that the teacher t is given
IndicesOf(t) ==
  LET r == partition_dataset(mnist.X_train, mnist.X_train, nb, t).result
  IN {r.data[k] : k \in 1..Len(r.data)}

\* the scenarios of the specification
Scenario == partition_dataset(Examples(60000), Labels(60000), 50, 0)
ScenarioEpochs == NumEpochs(3000, 1200, 128)

\* C1: for nb_teachers >= 1, 0 <= teacher_id < nb_teachers and data and
\* labels of the same length N, partition_dataset returns
\* block_len = floor(N / nb_teachers) and, as data and as labels, the elements
\* at the indices teacher_id*block_len .. (teacher_id+1)*block_len - 1, in
\* their order; 60000 examples and 50 teachers give teacher 0 the first 1200.
C1_PartitionIsSlice ==
  /\ (Called /\ ValidCall) =>
       LET bl == partition.batch_len
       IN /\ partition.returned
          /\ bl * nb <= N /\ N < (bl + 1) * nb
          /\ Len(partition.data) = bl
          /\ Len(partition.labels) = bl
          /\ \A k \in 1..bl :
               /\ partition.data[k] = mnist.X_train[tid * bl + k]
               /\ partition.labels[k] = mnist.y_train[tid * bl + k]
  /\ (pc = "setup" /\ ValidCall /\ tid = 0 /\ nb = 1) =>
       /\ Scenario.raised = "ok"
       /\ Scenario.result.batch_len = 1200
       /\ Scenario.result.data = Examples(1200)
       /\ Scenario.result.labels = Labels(1200)

C1_Witness ==
  /\ Called /\ ValidCall /\ partition.returned
  /\ tid = 1 /\ partition.batch_len = 2 /\ N = 5
  /\ partition.data = <<2, 3>>

\* C2: for fixed N and nb_teachers >= 1 the index ranges of two different
\* teachers are disjoint, the ranges in increasing teacher_id order are
\* contiguous and cover exactly 0 .. nb_teachers*floor(N/nb_teachers) - 1, and
\* the last N mod nb_teachers indices are in no teacher's range.
C2_PartitionsDisjointCover ==
  (nb >= 1) =>
    LET bl == CHOOSE q \in 0..N : q * nb <= N /\ N < (q + 1) * nb
    IN /\ \A t1, t2 \in 0..(nb - 1) :
            t1 # t2 => IndicesOf(t1) \cap IndicesOf(t2) = {}
       /\ \A t \in 0..(nb - 1) : IndicesOf(t) = (t * bl)..(t * bl + bl - 1)
       /\ UNION {IndicesOf(t) : t \in 0..(nb - 1)} = 0..(nb * bl - 1)
       /\ \A i \in (N - (N % nb))..(N - 1) :
            \A t \in 0..(nb - 1) : i \notin IndicesOf(t)
       /\ (Called /\ ValidCall) =>
            \A t \in 0..(nb - 1) : t # tid =>
              \A k \in 1..Len(partition.data) :
                partition.data[k] \notin IndicesOf(t)

C2_Witness ==
  /\ Called /\ ValidCall /\ partition.returned
  /\ nb = 2 /\ N = 5 /\ tid = 0
  /\ IndicesOf(0) = {0, 1} /\ IndicesOf(1) = {2, 3}

\* C3: whenever teacher_id >= nb_teachers or data and labels differ in length,
\* partition_dataset fails its precondition check and returns no partition;
\* no slice is computed, no epoch runs and no checkpoint is written.
C3_PreconditionFails ==
  (Called /\ (tid >= nb \/ Len(mnist.y_train) # N)) =>
    /\ pc = "Failed"
    /\ error = "AssertionError"
    /\ partition = NoPartition
    /\ ~train_ds.built
    /\ epoch = 0 /\ weights = 0 /\ saves = 0 /\ tests_done = 0
    /\ files = {}
    /\ printed = << >>

C3_Witness ==
  /\ pc = "Failed" /\ error = "AssertionError"
  /\ Len(mnist.y_train) = N + 1 /\ N = 2 /\ tid = 0 /\ nb = 2

C3_WitnessTeacher ==
  /\ pc = "Failed" /\ error = "AssertionError"
  /\ Len(mnist.y_train) = N /\ tid = nb /\ nb = 2

\* C8: whenever partition_dataset returns a partition, the teacher_id it was
\* called with satisfies 0 <= teacher_id < nb_teachers.
C8_ReturnedImpliesValidTeacher ==
  partition.returned => (0 <= tid /\ tid < nb)

\* the least number of batches of batch_size examples that hold batch_len
\* examples (batch_len >= 1, batch_size >= 1)
BatchesPerEpoch ==
  CHOOSE b \in 1..batch_len :
    b * FLAGS.batch_size >= batch_len /\ (b - 1) * FLAGS.batch_size < batch_len

\* n is min(100, floor(max_steps / b)), for b >= 1
IsEpochBudget(n, b) ==
  /\ n <= 100
  /\ n * b <= FLAGS.max_steps
  /\ n < 100 => FLAGS.max_steps < (n + 1) * b

C4_Witness ==
  /\ pc = "Terminated" /\ FLAGS.max_steps = LargeSteps
  /\ batch_len = 2 /\ FLAGS.batch_size = 1 /\ tid = 1
  /\ num_epochs = LargeSteps \div 2 /\ weights = 2 * num_epochs

PhaseStep ==
  \/ Phase = "Initializing" /\ Phase' \in {"Initializing", "Failed"}
  \/ Phase = "Initializing" /\ Phase' = "EpochStart"
       /\ epoch' = 1 /\ num_epochs' >= 1
  \/ Phase = "Initializing" /\ Phase' = "Terminated"
       /\ epoch' = 0 /\ num_epochs' <= 0
  \/ Phase = "EpochStart" /\ Phase' = "TrainBatchLoop"
  \/ Phase = "TrainBatchLoop" /\ Phase' = "TrainBatchLoop"
       /\ train_i < NB /\ train_i' = train_i + 1
  \/ Phase = "TrainBatchLoop" /\ Phase' = "Checkpoint" /\ train_i = NB
  \/ Phase = "Checkpoint" /\ Phase' = "TestBatchLoop" /\ saves' = saves + 1
  \/ Phase = "TestBatchLoop" /\ Phase' = "TestBatchLoop"
       /\ test_i < NT /\ test_i' = test_i + 1
  \/ Phase = "TestBatchLoop" /\ Phase' = "EpochEnd" /\ test_i = NT
  \/ Phase = "EpochEnd" /\ Phase' = "EpochStart"
       /\ epoch < num_epochs /\ epoch' = epoch + 1
  \/ Phase = "EpochEnd" /\ Phase' = "Terminated" /\ epoch = num_epochs

\* within an epoch: no test batch before the checkpoint write, no training
\* batch after it
EpochOrder ==
  /\ pc \in {"EpochStart", "TrainBatchLoop", "Checkpoint"} =>
       /\ saves = epoch - 1
       /\ tests_done = (epoch - 1) * NT
       /\ Len(printed) = epoch - 1
  /\ pc = "EpochStart" => weights = (epoch - 1) * NB
  /\ pc = "TrainBatchLoop" => weights = (epoch - 1) * NB + train_i
  /\ pc \in {"Checkpoint", "TestBatchLoop", "EpochEnd"} =>
       weights = epoch * NB
  /\ pc \in {"TestBatchLoop", "EpochEnd"} =>
       /\ saves = epoch
       /\ Len(printed) = epoch - 1
  /\ pc = "TestBatchLoop" => tests_done = (epoch - 1) * NT + test_i
  /\ pc = "EpochEnd" => tests_done = epoch * NT
  /\ InEpoch => (1 <= epoch /\ epoch <= num_epochs)

RunEnds == pc \in {"Terminated", "Failed"}

\* C5 as stated, in the runs of a teacher 0 <= teacher_id < nb_teachers:
\* reaching Terminated, the run has gone through exactly num_epochs epochs.
C5_Original ==
  (pc = "Terminated" /\ ValidCall) =>
    /\ Len(printed) = num_epochs
    /\ saves = num_epochs

\* C5 amended: a run that does not fail goes from Initializing through
\* max(0, num_epochs) repetitions of EpochStart, TrainBatchLoop, Checkpoint,
\* TestBatchLoop, EpochEnd, in this order, to Terminated, which it always
\* reaches, after exactly max(0, num_epochs) epochs; within an epoch no test
\* batch precedes the checkpoint write and no training batch follows it.
C5_PhaseOrder ==
  /\ [][PhaseStep]_vars
  /\ [](EpochOrder)
  /\ [](pc = "Terminated" =>
          /\ Len(printed) = Max(0, num_epochs)
          /\ saves = Max(0, num_epochs)
          /\ epoch = Max(0, num_epochs)
          /\ weights = Max(0, num_epochs) * NB
          /\ tests_done = Max(0, num_epochs) * NT)
  /\ <>RunEnds
  /\ [](pc = "setup" /\ batch_len >= 1 => <>(pc = "Terminated"))

C5_Witness ==
  /\ pc = "Terminated" /\ num_epochs = 3 /\ Len(printed) = 3
  /\ NB = 1 /\ NT = 2 /\ weights = 3 /\ tests_done = 6

\* the path the flags name
ExpectedPath ==
  "/tmp/train_dir/mnist_" \o ToString(nb) \o "_teachers_" \o ToString(tid)
    \o ".ckpt"

\* C6: every epoch writes a checkpoint, unconditionally, to the one path
\* train_dir/dataset_<nb_teachers>_teachers_<teacher_id>.ckpt; after n >= 1
\* completed epochs exactly one checkpoint exists and it holds the weights at
\* the end of the training pass of epoch n, not those of an earlier epoch.
C6_CheckpointOverwrite ==
  /\ pc \in {"TestBatchLoop", "EpochEnd"} => saves = epoch
  /\ pc = "Terminated" => saves = Len(printed)
  /\ saves = 0 => files = {}
  /\ saves >= 1 =>
       /\ Cardinality(files) = 1
       /\ files = {<<ExpectedPath, saves * NB>>}
       /\ Len(printed) \in {saves - 1, saves}
       /\ pc \in {"TestBatchLoop", "EpochEnd", "Terminated"} =>
            files = {<<ExpectedPath, weights>>}

C6_Witness ==
  /\ pc = "EpochEnd" /\ epoch = 3 /\ NB = 2 /\ tid = 1 /\ nb = 2
  /\ files = {<<"/tmp/train_dir/mnist_2_teachers_1.ckpt", 6>>}

\* the batches of epoch e, 1..n, as an accumulator holds them
BatchesOf(e, n) == [i \in 1..n |-> <<e, i>>]

\* C7: at the start of every epoch the four accumulators are reset before any
\* batch of the epoch is processed; each is then updated once per batch of its
\* stream, so the four values reported at the end of epoch e aggregate the
\* batches of epoch e only.
C7_MetricsPerEpoch ==
  /\ (pc = "TrainBatchLoop" /\ train_i = 0) => metrics = EmptyMetrics
  /\ pc \in {"TrainBatchLoop", "Checkpoint", "TestBatchLoop", "EpochEnd"} =>
       /\ metrics.train_loss = BatchesOf(epoch, train_i)
       /\ metrics.train_accuracy = BatchesOf(epoch, train_i)
  /\ pc \in {"TrainBatchLoop", "Checkpoint"} =>
       /\ metrics.test_loss = << >>
       /\ metrics.test_accuracy = << >>
  /\ pc \in {"TestBatchLoop", "EpochEnd"} =>
       /\ metrics.test_loss = BatchesOf(epoch, test_i)
       /\ metrics.test_accuracy = BatchesOf(epoch, test_i)
  /\ \A e \in 1..Len(printed) :
       /\ printed[e].epoch = e
       /\ printed[e].metrics.train_loss = BatchesOf(e, NB)
       /\ printed[e].metrics.train_accuracy = BatchesOf(e, NB)
       /\ printed[e].metrics.test_loss = BatchesOf(e, NT)
       /\ printed[e].metrics.test_accuracy = BatchesOf(e, NT)

C7_Witness ==
  /\ pc = "TrainBatchLoop" /\ train_i = 0 /\ epoch = 2
  /\ NB = 2 /\ NT = 2
  /\ Len(printed) = 1
  /\ printed[1].metrics.test_loss = <<<<1, 1>>, <<1, 2>>>>
  /\ metrics.test_loss = << >>

TrainMetrics == <<metrics.train_loss, metrics.train_accuracy>>
TestMetrics == <<metrics.test_loss, metrics.test_accuracy>>

\* C9: a test batch applies no gradient step: it leaves the weights and the
\* train accumulators as they are and changes the test accumulators only, so
\* the weights at EpochEnd are the ones the epoch's Checkpoint wrote; a
\* training batch changes the weights and the train accumulators and leaves
\* the test accumulators as they are.
C9_TestLeavesModel ==
  /\ [][/\ pc = "TestBatchLoop" =>
             /\ weights' = weights
             /\ TrainMetrics' = TrainMetrics
             /\ files' = files
        /\ (pc = "TestBatchLoop" /\ test_i' # test_i) =>
             /\ Len(metrics'.test_loss) = Len(metrics.test_loss) + 1
             /\ Len(metrics'.test_accuracy) = Len(metrics.test_accuracy) + 1
        /\ (pc = "TrainBatchLoop" /\ train_i' # train_i) =>
             /\ weights' # weights
             /\ Len(metrics'.train_loss) = Len(metrics.train_loss) + 1
             /\ Len(metrics'.train_accuracy) = Len(metrics.train_accuracy) + 1
             /\ TestMetrics' = TestMetrics]_vars
  /\ [](pc = "EpochEnd" => files = {<<ckpt_path, weights>>})

C9_Witness ==
  /\ pc = "EpochEnd" /\ test_i = 2 /\ train_i = 2 /\ epoch = 2
  /\ weights = 4 /\ files = {<<ckpt_path, 4>>}
  /\ Len(metrics.test_loss) = 2

\* C10 as stated, in the runs of a teacher 0 <= teacher_id < nb_teachers: at
\* Terminated a checkpoint exists if and only if num_epochs >= 1; when
\* block_len >= 1 and max_steps < ceil(block_len / batch_size), num_epochs is
\* 0 and the process terminates normally with no gradient update, no test
\* batch, no checkpoint.
C10_Original ==
  /\ pc = "Terminated" => (files # {} <=> num_epochs >= 1)
  /\ (Running /\ ValidCall /\ batch_len >= 1 /\ FLAGS.max_steps < BatchesPerEpoch) =>
       /\ num_epochs = 0
       /\ pc = "Terminated"
       /\ weights = 0 /\ tests_done = 0 /\ files = {}

\* C10 amended: the same, with num_epochs <= 0, and num_epochs = 0 exactly
\* when max_steps >= 0.
C10_NoEpochNoCheckpoint ==
  /\ pc = "Terminated" => (files # {} <=> num_epochs >= 1)
  /\ (train_ds.built /\ batch_len >= 1) => pc # "Failed"
  /\ (Running /\ batch_len >= 1 /\ FLAGS.max_steps < BatchesPerEpoch) =>
       /\ num_epochs <= 0
       /\ FLAGS.max_steps >= 0 => num_epochs = 0
       /\ pc = "Terminated"
       /\ weights = 0 /\ tests_done = 0 /\ files = {}
       /\ saves = 0 /\ printed = << >>

C10_Witness ==
  /\ pc = "Terminated" /\ batch_len = 2 /\ FLAGS.batch_size = 1
  /\ FLAGS.max_steps = 1 /\ num_epochs = 0 /\ files = {} /\ weights = 0

C10_WitnessCheckpoint ==
  /\ pc = "Terminated" /\ num_epochs = 1 /\ files # {}

====
